---- MODULE Spec2Model ----
(***************************************************************************)
(* A model of backend/server.py, the case-management REST backend.         *)
(*                                                                         *)
(* The storage backend (MongoDB or OpenSearch, chosen once by              *)
(* USE_OPENSEARCH) is modelled as five collections of records; a write is  *)
(* visible to the next read (the repository's tests read back right after  *)
(* writing, with no index refresh in between).  Every route handler is a   *)
(* sequence of atomic steps, one per awaited storage or disk call: the     *)
(* code between two awaits runs without interleaving on the event loop.    *)
(* A storage call may raise (a fault); what the handler does with the      *)
(* exception is modelled per backend, as the code catches it or not.       *)
(***************************************************************************)
EXTENDS Integers, Sequences, FiniteSets, TLC

(* Bounds of the model. *)
MaxUuid == 4
MaxInFlight == 2
MaxFaults == 1
MaxProcs == 2

None == "None"
Reqs == 1..MaxInFlight
Procs == 1..MaxProcs

VARIABLES
    USE_OPENSEARCH,  \* the backend selected at process start
    cases,           \* CASES_INDEX: set of Case records
    comments,        \* COMMENTS_INDEX: set of Comment records
    files,           \* FILES_INDEX: set of FileAttachment records
    users,           \* USERS_INDEX: set of User records
    alerts,          \* ALERTS_INDEX: set of Alert records
    disk,            \* UPLOAD_DIR: stored filename -> bytes
    uuid,            \* how many uuid4() values have been drawn
    req,             \* the requests in flight, one per slot
    faults,          \* how many storage calls have raised so far
    faultBudget,     \* how many storage calls may raise in this execution
    concurrency,     \* how many requests may be in flight at once
    tracking,        \* whether this execution records its history
    hist,            \* history of completed requests (for stating claims)
    indices,         \* the names of the indices the search cluster holds
    startup          \* each server process's position in startup_event

vars == <<USE_OPENSEARCH, cases, comments, files, users, alerts, disk, uuid, req,
          faults, faultBudget, concurrency, tracking, hist, indices, startup>>

store == <<cases, comments, files, users, alerts, disk>>
config == <<USE_OPENSEARCH, faultBudget, concurrency, tracking>>
cluster == <<indices, startup>>

-----------------------------------------------------------------------------
(* Enums and request inputs *)

CaseStatus == {"open", "in_progress", "closed"}
CommentType == {"user", "system"}

Usernames == {"alice", "bob"}
(* Text as a sequence of characters; a space separates words *)
Titles == {<<"a", "b", " ", "c">>, <<"c">>}

(* CaseCreate bodies: the fields left out take the model's defaults *)
CaseCreates ==
    {[title |-> <<"a", "b", " ", "c">>, priority |-> "high",
      created_by |-> "alice"],
     [title |-> <<"c">>, priority |-> "medium", created_by |-> "bob"]}

EmptyBody == <<>>
(* CaseUpdate bodies after dict(exclude_unset=True): only the supplied keys *)
CaseUpdates == {EmptyBody} \cup {[status |-> s] : s \in CaseStatus}
                   \cup {[title |-> t] : t \in Titles}

(* Uploaded files: filename as a sequence of characters, content as bytes *)
Uploads == { [filename |-> <<"a", ".", "t">>, content_type |-> "text/plain",
              content |-> <<1, 2>>],
             [filename |-> <<"R">>, content_type |-> None,
              content |-> <<>>] }

(* str(uuid.uuid4()): the n-th value drawn; values are never repeated *)
Uuid4(n) == "uuid" \o ToString(n)

(* An id no uuid4() call returns *)
NonExistentId == "non-existent-id"

-----------------------------------------------------------------------------
(* Record constructors: the pydantic models with their defaults *)

(* Mutant: the username is used as the id *)
User_UsernameAsId(id, username) == [id |-> username, username |-> username]
User(id, username) == [id |-> id, username |-> username]

(* created_at and updated_at default to utcnow() when the record is built:
   created_at is the ordinal of the construction, updated_at is Fresh until a
   later utcnow() overwrites it *)
Fresh == "fresh"
UtcNow == "utcnow"
Case(id, created_at, case) ==
    [id |-> id, title |-> case.title, status |-> "open",
     priority |-> case.priority, tags |-> {},
     created_by |-> case.created_by, created_at |-> created_at,
     updated_at |-> Fresh, closed_at |-> None,
     comments_count |-> 0, attachments_count |-> 0, alert_id |-> None]

Comment(id, case_id, author, content, comment_type) ==
    [id |-> id, case_id |-> case_id, author |-> author, content |-> content,
     comment_type |-> comment_type, updated_at |-> None]

FileAttachment(id, filename, original_filename, file_size, mime_type, case_id) ==
    [id |-> id, filename |-> filename, original_filename |-> original_filename,
     file_size |-> file_size, mime_type |-> mime_type, case_id |-> case_id]

-----------------------------------------------------------------------------
(* Storage primitives *)

Has(coll, id) == \E d \in coll : d.id = id
Get(coll, id) == CHOOSE d \in coll : d.id = id

(* Mutant: the delete removes nothing *)
Without_Nothing(coll, id) == coll
Without(coll, id) == {d \in coll : d.id # id}
(* Mutant: the cascade removes nothing *)
WithoutCase_Nothing(coll, case_id) == coll
WithoutCase(coll, case_id) == {d \in coll : d.case_id # case_id}

(* Mutant: the count leaves out the case_id filter *)
CountCase_Unfiltered(coll, case_id) == Cardinality(coll)
CountCase(coll, case_id) == Cardinality({d \in coll : d.case_id = case_id})

(* $set / partial "doc" update: only the supplied fields change *)
(* Mutant: a closed case keeps its status *)
Merge_ClosedIsFinal(doc, upd) ==
    [f \in DOMAIN doc |->
        IF f \in DOMAIN upd /\ ~(f = "status" /\ doc[f] = "closed")
        THEN upd[f] ELSE doc[f]]
(* Mutant: the write sets nothing *)
Merge_Nothing(doc, upd) == doc
Merge(doc, upd) ==
    [f \in DOMAIN doc |-> IF f \in DOMAIN upd THEN upd[f] ELSE doc[f]]
(* Mutant: the write inserts the document when there is none (an upsert) *)
UpdateOne_Upsert(coll, id, upd) ==
    IF \E d \in coll : d.id = id
    THEN {IF d.id = id THEN Merge(d, upd) ELSE d : d \in coll}
    ELSE coll \cup {[f \in DOMAIN upd \cup {"id"} |->
                        IF f = "id" THEN id ELSE upd[f]]}
(* Mutant: the write has no id filter *)
UpdateOne_EveryDoc(coll, id, upd) == {Merge(d, upd) : d \in coll}
UpdateOne(coll, id, upd) ==
    {IF d.id = id THEN Merge(d, upd) ELSE d : d \in coll}

-----------------------------------------------------------------------------
(* Requests *)

(* log: the system comments the handler has inserted and the counter
   refreshes it has run, in order (kept to state the claims) *)
Idle == [op |-> "idle", pc |-> "idle", id |-> None, in |-> None,
         obj |-> None, case_id |-> None, path |-> None, cc |-> 0, ac |-> 0,
         status |-> 0, body |-> None, log |-> <<>>]

Logged(rq, event) == [rq EXCEPT !.log = Append(@, event)]

NewReq(op, pc, id, in) ==
    [Idle EXCEPT !.op = op, !.pc = pc, !.id = id, !.in = in]

InFlight(r) == req[r].pc \notin {"idle", "done"}
Quiescent == \A r \in Reqs : ~InFlight(r)

Detail(msg) == [detail |-> msg]
Message(msg) == [message |-> msg]

(* The handler returns or raises HTTPException: the response is fixed *)
Respond(rq, status, body) ==
    [rq EXCEPT !.pc = "done", !.status = status, !.body = body]

(* A body that is plain text, not JSON *)
PlainText(text) == [text |-> text]

(* An exception no handler catches: the server answers 500, no JSON detail *)
Unhandled(rq) == Respond(rq, 500, PlainText("Internal Server Error"))

CanFail == faults < faultBudget
Fault == faults' = faults + 1
NoFault == faults' = faults

-----------------------------------------------------------------------------
(* History of completed requests, kept only to state the claims *)

NoHistory ==
    [made |-> {},      \* the comments successful create_comment requests returned
     gone |-> {},      \* ids of the comments successful delete_comment requests removed
     other |-> {},     \* cases that lost a comment no create_comment made, or
                       \* whose status an update_case set
     uploaded |-> {},  \* <<file record, upload>> of every successful upload_file
     served |-> {},    \* ids of the files a download_file has returned
     removed |-> {},   \* file records successful delete_file requests removed
     deleted |-> {},   \* ids of the cases successful delete_case requests deleted
     overlapped |-> {},  \* slots whose request has shared its time with another
     skewed |-> {}]    \* ids of the cases whose counts were off with nothing in flight

Log(h, rq) ==
    IF rq.pc # "done" \/ rq.status # 200 THEN h
    ELSE CASE rq.op = "create_comment" ->
                [h EXCEPT !.made = @ \cup {rq.body}]
           [] rq.op = "delete_comment" ->
                [h EXCEPT !.gone = @ \cup {rq.id},
                          !.other = IF \E m \in h.made : m.id = rq.id
                                    THEN @ ELSE @ \cup {rq.case_id}]
           [] rq.op = "update_case" /\ "status" \in DOMAIN rq.in ->
                [h EXCEPT !.other = @ \cup {rq.id}]
           [] rq.op = "upload_file" ->
                [h EXCEPT !.uploaded = @ \cup {<<rq.body, rq.in>>}]
           [] rq.op = "download_file" ->
                [h EXCEPT !.served = @ \cup {rq.id}]
           [] rq.op = "delete_file" ->
                [h EXCEPT !.removed = @ \cup {rq.obj}]
           [] rq.op = "delete_case" ->
                [h EXCEPT !.deleted = @ \cup {rq.id}]
           [] OTHER -> h

(* A request arrives in slot r: the requests in flight overlap with it, and
   the cases whose counts differ from their children with nothing in flight
   are noted *)
Arrival(h, r) ==
    LET others == {q \in Reqs : req[q].pc \notin {"idle", "done"}} IN
    [h EXCEPT !.overlapped = IF others = {} THEN @ \ {r}
                             ELSE @ \cup others \cup {r},
              !.skewed = IF others # {} THEN @
                         ELSE @ \cup {c.id : c \in {d \in cases :
                            \/ d.comments_count #
                                  Cardinality({m \in comments : m.case_id = d.id})
                            \/ d.attachments_count #
                                  Cardinality({f \in files : f.case_id = d.id})}}]

(* Slot r's request becomes rq *)
Set(r, rq) ==
    /\ req' = [req EXCEPT ![r] = rq]
    /\ hist' = IF ~tracking THEN hist
               ELSE IF req[r].pc = "idle" THEN Arrival(hist, r)
               ELSE Log(hist, rq)

-----------------------------------------------------------------------------
(* uuid4() draws still ahead of a request at its program counter *)

UuidsAhead(rq) ==
    CASE rq.pc \in {"cu_check", "cu_insert"} -> 1
      [] rq.pc \in {"cc_insert", "cc_comment"} -> 1
      [] rq.pc \in {"uc_get", "uc_update"} ->
            IF "status" \in DOMAIN rq.in THEN 1 ELSE 0
      [] rq.pc = "uc_comment" -> 1
      [] rq.pc \in {"cm_get", "cm_insert"} -> 1
      [] rq.pc \in {"uf_get", "uf_write"} -> 2
      [] rq.pc = "uf_insert" -> 1
      [] rq.pc = "al_insert" -> 1
      [] rq.pc \in {"ap_get", "ap_insert"} -> 2
      [] rq.pc = "ap_comment" -> 1
      [] OTHER -> 0

(* The ids a client can send: an id it was handed and that is still stored, an
   id that never was, and the id of a file it has deleted.  An id of another
   collection, or of a deleted case or comment, gets the same answers as
   NonExistentId, since uuid4() never returns a value twice *)
CaseIds == {c.id : c \in cases} \cup {NonExistentId}
CommentIds == {m.id : m \in comments} \cup {NonExistentId}
FileIds == {f.id : f \in files} \cup {f.id : f \in hist.removed}
               \cup {NonExistentId}

RECURSIVE ReservedUpTo(_)
ReservedUpTo(n) ==
    IF n = 0 THEN 0 ELSE UuidsAhead(req[n]) + ReservedUpTo(n - 1)
Reserved == ReservedUpTo(MaxInFlight)

(* A request arrives: the lowest free slot (slots are interchangeable), every
   finished response sent, and enough uuids left for the request to finish *)
Accept(r, need) ==
    /\ req[r].pc = "idle"
    /\ \A q \in Reqs : q < r => req[q].pc # "idle"
    /\ \A q \in Reqs : req[q].pc # "done"
    /\ Cardinality({q \in Reqs : InFlight(q)}) < concurrency
    /\ uuid + Reserved + need <= MaxUuid

At(r, pc) == req[r].pc = pc

(* The response has been sent: the slot is free again *)
Reply(r) ==
    /\ At(r, "done")
    /\ req' = [req EXCEPT ![r] = Idle]
    /\ UNCHANGED <<store, uuid, faults, config, cluster, hist>>

-----------------------------------------------------------------------------
(* get_case_by_id: the case, 404 when there is none, 500 when the search
   raises (OpenSearch wraps the exception; MongoDB's propagates unhandled) *)

(* Mutant: the except clause re-raises the 404 as a 500 *)
CaseNotFound_Rewrapped(rq) == Respond(rq, 500, Detail("Error retrieving case"))
CaseNotFound(rq) == Respond(rq, 404, Detail("Case not found"))
CaseError(rq) ==
    IF USE_OPENSEARCH THEN Respond(rq, 500, Detail("Error retrieving case"))
    ELSE Unhandled(rq)

(* Mutant: the exception is swallowed and the request answers 200 *)
Raise_Swallowed(rq, msg) == Respond(rq, 200, Message(msg))

(* A storage call of a handler raised: OpenSearch branches wrap it in
   HTTPException(500, detail); MongoDB branches have no try/except *)
Raise(rq, msg) ==
    IF USE_OPENSEARCH THEN Respond(rq, 500, Detail(msg)) ELSE Unhandled(rq)

-----------------------------------------------------------------------------
(* POST /users *)

BeginCreateUser(r) ==
    /\ Accept(r, 1)
    /\ \E username \in Usernames :
          Set(r, NewReq("create_user", "cu_check", None, username))
    /\ UNCHANGED <<store, uuid, faults, config, cluster>>

UsernameExists(username) == \E u \in users : u.username = username

create_user_check(r) ==
    /\ At(r, "cu_check")
    /\ \/ /\ NoFault
          /\ IF UsernameExists(req[r].in)
             THEN Set(r, Respond(req[r], 400, Detail("Username already exists")))
             ELSE Set(r, [req[r] EXCEPT !.pc = "cu_insert"])
       \/ /\ CanFail /\ Fault
          /\ Set(r, Raise(req[r], "Error checking user"))
    /\ UNCHANGED <<store, uuid, config, cluster>>

create_user_insert(r) ==
    /\ At(r, "cu_insert")
    /\ uuid' = uuid + 1
    /\ LET user_obj == User(Uuid4(uuid + 1), req[r].in) IN
       \/ /\ NoFault
          /\ users' = users \cup {user_obj}
          /\ Set(r, Respond(req[r], 200, user_obj))
       \/ /\ CanFail /\ Fault
          /\ users' = users
          /\ Set(r, Raise(req[r], "Error creating user"))
    /\ UNCHANGED <<cases, comments, files, disk, alerts, config, cluster>>

-----------------------------------------------------------------------------
(* update_case_counts: recount the children, then write both counts *)

(* What the handler does once update_case_counts has returned *)
AfterCounts(rq) ==
    LET q == Logged(rq, "update_case_counts") IN
    CASE rq.op = "create_case" -> Respond(q, 200, rq.obj)
      [] rq.op = "update_case" -> [q EXCEPT !.pc = "uc_reget"]
      [] rq.op = "create_comment" -> Respond(q, 200, rq.obj)
      [] rq.op = "delete_comment" ->
            Respond(q, 200, Message("Comment deleted successfully"))
      [] rq.op = "upload_file" -> Respond(q, 200, rq.obj)
      [] rq.op = "create_case_from_alert" -> [q EXCEPT !.pc = "ap_link"]
      [] rq.op = "delete_file" ->
            Respond(q, 200, Message("File deleted successfully"))

(* Where an exception of update_case_counts ends up: opensearch_update_case_counts
   logs and swallows it; mongo_update_case_counts lets it out, where only
   upload_file has a try/except around the call *)
CountsRaised(rq) ==
    IF USE_OPENSEARCH THEN AfterCounts(rq)
    ELSE IF rq.op = "upload_file"
         THEN Respond(rq, 500, Detail("Error uploading file"))
         ELSE Unhandled(rq)

Exists(path) == path \in DOMAIN disk

(* Mutant: the file stays on disk *)
Unlink_Nothing(d, path) == d
(* file_path.unlink() *)
Unlink(d, path) == [p \in DOMAIN d \ {path} |-> d[p]]

(* Mutant: the except clause leaves the file *)
UploadCleanUp_Skipped(path) == disk
(* upload_file's except clause: if file_path.exists(): file_path.unlink() *)
UploadCleanUp(path) == IF Exists(path) THEN Unlink(disk, path) ELSE disk

(* The disk after update_case_counts raised: only mongo_update_case_counts
   lets the exception out, and only upload_file catches it *)
CleanUp(rq) ==
    IF ~USE_OPENSEARCH /\ rq.op = "upload_file" THEN UploadCleanUp(rq.path)
    ELSE disk

count_comments(r) ==
    /\ At(r, "rc_comments")
    /\ \/ /\ NoFault
          /\ disk' = disk
          /\ Set(r, [req[r] EXCEPT !.pc = "rc_files",
                        !.cc = CountCase(comments, req[r].case_id)])
       \/ /\ CanFail /\ Fault
          /\ disk' = CleanUp(req[r])
          /\ Set(r, CountsRaised(req[r]))
    /\ UNCHANGED <<cases, comments, files, users, uuid, alerts, config, cluster>>

count_files(r) ==
    /\ At(r, "rc_files")
    /\ \/ /\ NoFault
          /\ disk' = disk
          /\ Set(r, [req[r] EXCEPT !.pc = "rc_update",
                        !.ac = CountCase(files, req[r].case_id)])
       \/ /\ CanFail /\ Fault
          /\ disk' = CleanUp(req[r])
          /\ Set(r, CountsRaised(req[r]))
    /\ UNCHANGED <<cases, comments, files, users, uuid, alerts, config, cluster>>

(* update_one matches nothing when the case is gone; client.update raises
   NotFoundError then, which opensearch_update_case_counts swallows *)
(* Mutant: the counts are the stored ones, stepped by what the request did *)
Counted_Incremental(rq) ==
    LET c == Get(cases, rq.case_id)
        step(created, deleted) == IF rq.op = created THEN 1
                                  ELSE IF rq.op = deleted THEN -1 ELSE 0 IN
    [comments_count |-> c.comments_count + step("create_comment", "delete_comment"),
     attachments_count |-> c.attachments_count + step("upload_file", "delete_file"),
     updated_at |-> UtcNow]

(* The fields update_case_counts writes: the two counts it has read *)
Counted(rq) ==
    [comments_count |-> rq.cc,
     attachments_count |-> rq.ac,
     updated_at |-> UtcNow]

update_counts(r) ==
    /\ At(r, "rc_update")
    /\ \/ /\ NoFault
          /\ cases' = UpdateOne(cases, req[r].case_id, Counted(req[r]))
          /\ disk' = disk
          /\ Set(r, AfterCounts(req[r]))
       \/ /\ CanFail /\ Fault
          /\ cases' = cases
          /\ disk' = CleanUp(req[r])
          /\ Set(r, CountsRaised(req[r]))
    /\ UNCHANGED <<comments, files, users, uuid, alerts, config, cluster>>

-----------------------------------------------------------------------------
(* POST /cases *)

BeginCreateCase(r) ==
    /\ Accept(r, 2)
    /\ uuid' = uuid + 1
    /\ \E case \in CaseCreates :
          LET case_obj == Case(Uuid4(uuid + 1), uuid + 1, case) IN
          Set(r, [NewReq("create_case", "cc_insert", None, case)
                     EXCEPT !.obj = case_obj, !.case_id = case_obj.id])
    /\ UNCHANGED <<store, faults, config, cluster>>

create_case_insert(r) ==
    /\ At(r, "cc_insert")
    /\ \/ /\ NoFault
          /\ cases' = cases \cup {req[r].obj}
          /\ Set(r, [req[r] EXCEPT !.pc = "cc_comment"])
       \/ /\ CanFail /\ Fault
          /\ cases' = cases
          /\ Set(r, Raise(req[r], "Error creating case"))
    /\ UNCHANGED <<comments, files, users, disk, uuid, alerts, config, cluster>>

(* Mutant: the comment is built with the default comment_type *)
SystemComment_UserTyped(id, case_id) ==
    Comment(id, case_id, "system", "Case ...", "user")
SystemComment(id, case_id) ==
    Comment(id, case_id, "system", "Case ...", "system")

create_case_comment(r) ==
    /\ At(r, "cc_comment")
    /\ uuid' = uuid + 1
    /\ \/ /\ NoFault
          /\ comments' = comments \cup
                 {SystemComment(Uuid4(uuid + 1), req[r].case_id)}
          /\ Set(r, [Logged(req[r], "system_comment")
                        EXCEPT !.pc = "rc_comments"])
       \/ /\ CanFail /\ Fault
          /\ comments' = comments
          /\ Set(r, Raise(req[r], "Error creating case"))
    /\ UNCHANGED <<cases, files, users, disk, alerts, config, cluster>>

-----------------------------------------------------------------------------
(* GET /cases *)

(* The query parameters; None is a parameter left out, and so is the empty
   search text, which "if search:" treats alike.  limit and offset stay
   within what Query(50, le=100) and Query(0, ge=0) accept *)
Searches == {<<"c">>, <<"b">>}
NoSearch == <<>>
CaseQueries ==
    [status : CaseStatus \cup {None}, priority : {"high", None},
     created_by : {"alice", None}, search : Searches \cup {NoSearch},
     limit : {1, 50}, offset : {0, 1}]

(* text contains term (a regex of plain letters, the case ignored) *)
Contains(text, term) ==
    \E i \in 1..(Len(text) - Len(term) + 1) :
        SubSeq(text, i, i + Len(term) - 1) = term

(* The words of a text, as the standard analyzer splits it *)
RECURSIVE Tokens(_)
Tokens(text) ==
    IF text = <<>> THEN {}
    ELSE LET sp == {i \in 1..Len(text) : text[i] = " "} IN
         IF sp = {} THEN {text}
         ELSE LET i == CHOOSE k \in sp : \A j \in sp : k <= j IN
              (IF i = 1 THEN {} ELSE {SubSeq(text, 1, i - 1)})
                  \cup Tokens(SubSeq(text, i + 1, Len(text)))

(* Mutant: the text is matched as a substring *)
MultiMatch_Substring(search, c) == Contains(c.title, search)
(* multi_match over title, description and tags: a word of the query is a
   word of the text (the cases listed here have no description or tag that
   a query matches) *)
MultiMatch(search, c) == Tokens(search) \cap Tokens(c.title) # {}

(* $or of the regex on title and description and $in on tags *)
RegexOr(search, c) == Contains(c.title, search)

(* The term clauses of the supplied filters, evaluated on case c *)
TermClauses(c, q) ==
    (IF q.status # None THEN {c.status = q.status} ELSE {})
    \cup (IF q.priority # None THEN {c.priority = q.priority} ELSE {})
    \cup (IF q.created_by # None THEN {c.created_by = q.created_by} ELSE {})

(* Mutant: the clauses are combined by should *)
Must_Should(clauses) == clauses = {} \/ TRUE \in clauses
(* {"bool": {"must": filters}}; match_all when there is no filter *)
Must(clauses) == FALSE \notin clauses

OpenSearchHit(c, q) ==
    Must(TermClauses(c, q) \cup
         (IF q.search # NoSearch THEN {MultiMatch(q.search, c)} ELSE {}))

(* The query document: every key must match *)
MongoHit(c, q) ==
    /\ q.status # None => c.status = q.status
    /\ q.priority # None => c.priority = q.priority
    /\ q.created_by # None => c.created_by = q.created_by
    /\ q.search # NoSearch => RegexOr(q.search, c)

(* sort by created_at, newest first *)
RECURSIVE SortDesc(_)
SortDesc(found) ==
    IF found = {} THEN <<>>
    ELSE LET c == CHOOSE x \in found :
                      \A y \in found : y.created_at <= x.created_at IN
         <<c>> \o SortDesc(found \ {c})

Min(a, b) == IF a <= b THEN a ELSE b

(* from/size, skip/limit *)
Page(list, offset, limit) ==
    SubSeq(list, offset + 1, Min(Len(list), offset + limit))

BeginGetCases(r) ==
    /\ Accept(r, 0)
    /\ \E q \in CaseQueries : Set(r, NewReq("get_cases", "gl_find", None, q))
    /\ UNCHANGED <<store, uuid, faults, config, cluster>>

get_cases(r) ==
    /\ At(r, "gl_find")
    /\ \/ /\ NoFault
          /\ LET q == req[r].in
                 found == IF USE_OPENSEARCH
                          THEN {c \in cases : OpenSearchHit(c, q)}
                          ELSE {c \in cases : MongoHit(c, q)} IN
             Set(r, Respond(req[r], 200,
                            Page(SortDesc(found), q.offset, q.limit)))
       \/ /\ CanFail /\ Fault
          /\ Set(r, Raise(req[r], "Error retrieving cases"))
    /\ UNCHANGED <<store, uuid, config, cluster>>

-----------------------------------------------------------------------------
(* GET /cases/{case_id} *)

BeginGetCase(r) ==
    /\ Accept(r, 0)
    /\ \E case_id \in CaseIds : Set(r, NewReq("get_case", "gc_get", case_id, None))
    /\ UNCHANGED <<store, uuid, faults, config, cluster>>

get_case(r) ==
    /\ At(r, "gc_get")
    /\ \/ /\ NoFault
          /\ IF Has(cases, req[r].id)
             THEN Set(r, Respond(req[r], 200, Get(cases, req[r].id)))
             ELSE Set(r, CaseNotFound(req[r]))
       \/ /\ CanFail /\ Fault
          /\ Set(r, CaseError(req[r]))
    /\ UNCHANGED <<store, uuid, config, cluster>>

-----------------------------------------------------------------------------
(* PUT /cases/{case_id} *)

(* Mutant: a status other than closed clears closed_at *)
UpdateData_ClearsClosedAt(body) ==
    LET stamps == IF "status" \in DOMAIN body
                  THEN {"updated_at", "closed_at"} ELSE {"updated_at"} IN
    [f \in DOMAIN body \cup stamps |->
        IF f = "updated_at" THEN UtcNow
        ELSE IF f = "closed_at"
             THEN (IF body["status"] = "closed" THEN UtcNow ELSE None)
             ELSE body[f]]
(* Mutant: the body is read without exclude_unset, so every field the body
   leaves out is None *)
UpdateData_Unset(body) ==
    [f \in {"title", "status", "tags", "updated_at"} |->
        IF f \in DOMAIN body THEN body[f]
        ELSE IF f = "updated_at" THEN UtcNow ELSE None]
(* update_data: the supplied fields, updated_at, and closed_at when status
   is closed (built only for a body that is not empty) *)
UpdateData(body) ==
    LET stamps == IF "status" \in DOMAIN body /\ body["status"] = "closed"
                  THEN {"updated_at", "closed_at"} ELSE {"updated_at"} IN
    [f \in DOMAIN body \cup stamps |->
        IF f \in stamps THEN UtcNow ELSE body[f]]

BeginUpdateCase(r) ==
    /\ \E case_id \in CaseIds, body \in CaseUpdates :
          /\ Accept(r, IF "status" \in DOMAIN body THEN 1 ELSE 0)
          /\ Set(r, [NewReq("update_case", "uc_get", case_id, body)
                        EXCEPT !.case_id = case_id])
    /\ UNCHANGED <<store, uuid, faults, config, cluster>>

update_case_get(r) ==
    /\ At(r, "uc_get")
    /\ \/ /\ NoFault
          /\ IF Has(cases, req[r].id)
             THEN Set(r, [req[r] EXCEPT !.obj = Get(cases, req[r].id), !.pc =
                      IF req[r].in # EmptyBody THEN "uc_update" ELSE "uc_reget"])
             ELSE Set(r, CaseNotFound(req[r]))
       \/ /\ CanFail /\ Fault
          /\ Set(r, CaseError(req[r]))
    /\ UNCHANGED <<store, uuid, config, cluster>>

(* client.update raises NotFoundError when the document is gone; update_one
   then matches nothing *)
update_case_update(r) ==
    /\ At(r, "uc_update")
    /\ \/ /\ NoFault
          /\ IF USE_OPENSEARCH /\ ~Has(cases, req[r].id)
             THEN /\ cases' = cases
                  /\ Set(r, Respond(req[r], 500, Detail("Error updating case")))
             ELSE /\ cases' = UpdateOne(cases, req[r].id, UpdateData(req[r].in))
                  /\ Set(r, [req[r] EXCEPT !.pc =
                         IF "status" \in DOMAIN req[r].in
                         THEN "uc_comment" ELSE "uc_reget"])
       \/ /\ CanFail /\ Fault
          /\ cases' = cases
          /\ Set(r, Raise(req[r], "Error updating case"))
    /\ UNCHANGED <<comments, files, users, disk, uuid, alerts, config, cluster>>

update_case_comment(r) ==
    /\ At(r, "uc_comment")
    /\ uuid' = uuid + 1
    /\ \/ /\ NoFault
          /\ comments' = comments \cup
                 {SystemComment(Uuid4(uuid + 1), req[r].id)}
          /\ Set(r, [Logged(req[r], "system_comment")
                        EXCEPT !.pc = "rc_comments"])
       \/ /\ CanFail /\ Fault
          /\ comments' = comments
          /\ Set(r, Raise(req[r], "Error updating case"))
    /\ UNCHANGED <<cases, files, users, disk, alerts, config, cluster>>

(* The closing get_case_by_id.  In the OpenSearch branch it sits inside the
   try whose except re-raises every exception, its 404 too, as 500 *)
update_case_reget(r) ==
    /\ At(r, "uc_reget")
    /\ LET wrapped == USE_OPENSEARCH /\ req[r].in # EmptyBody IN
       \/ /\ NoFault
          /\ IF Has(cases, req[r].id)
             THEN Set(r, Respond(req[r], 200, Get(cases, req[r].id)))
             ELSE IF wrapped
                  THEN Set(r, Respond(req[r], 500, Detail("Error updating case")))
                  ELSE Set(r, CaseNotFound(req[r]))
       \/ /\ CanFail /\ Fault
          /\ IF wrapped
             THEN Set(r, Respond(req[r], 500, Detail("Error updating case")))
             ELSE Set(r, CaseError(req[r]))
    /\ UNCHANGED <<store, uuid, config, cluster>>

-----------------------------------------------------------------------------
(* DELETE /cases/{case_id} *)

BeginDeleteCase(r) ==
    /\ Accept(r, 0)
    /\ \E case_id \in CaseIds :
          Set(r, NewReq("delete_case", "dc_get", case_id, None))
    /\ UNCHANGED <<store, uuid, faults, config, cluster>>

delete_case_get(r) ==
    /\ At(r, "dc_get")
    /\ \/ /\ NoFault
          /\ IF Has(cases, req[r].id)
             THEN Set(r, [req[r] EXCEPT !.pc = "dc_comments"])
             ELSE Set(r, CaseNotFound(req[r]))
       \/ /\ CanFail /\ Fault
          /\ Set(r, CaseError(req[r]))
    /\ UNCHANGED <<store, uuid, config, cluster>>

delete_case_comments(r) ==
    /\ At(r, "dc_comments")
    /\ \/ /\ NoFault
          /\ comments' = WithoutCase(comments, req[r].id)
          /\ Set(r, [req[r] EXCEPT !.pc = "dc_files"])
       \/ /\ CanFail /\ Fault
          /\ comments' = comments
          /\ Set(r, Raise(req[r], "Error deleting case"))
    /\ UNCHANGED <<cases, files, users, disk, uuid, alerts, config, cluster>>

(* Only the metadata records go: the handler never touches UPLOAD_DIR *)
delete_case_files(r) ==
    /\ At(r, "dc_files")
    /\ \/ /\ NoFault
          /\ files' = WithoutCase(files, req[r].id)
          /\ Set(r, [req[r] EXCEPT !.pc = "dc_case"])
       \/ /\ CanFail /\ Fault
          /\ files' = files
          /\ Set(r, Raise(req[r], "Error deleting case"))
    /\ UNCHANGED <<cases, comments, users, disk, uuid, alerts, config, cluster>>

delete_case_case(r) ==
    /\ At(r, "dc_case")
    /\ \/ /\ NoFault
          /\ IF USE_OPENSEARCH /\ ~Has(cases, req[r].id)
             THEN /\ cases' = cases
                  /\ Set(r, Respond(req[r], 500, Detail("Error deleting case")))
             ELSE /\ cases' = Without(cases, req[r].id)
                  /\ Set(r, Respond(req[r], 200,
                                    Message("Case deleted successfully")))
       \/ /\ CanFail /\ Fault
          /\ cases' = cases
          /\ Set(r, Raise(req[r], "Error deleting case"))
    /\ UNCHANGED <<comments, files, users, disk, uuid, alerts, config, cluster>>

-----------------------------------------------------------------------------
(* POST /cases/{case_id}/comments *)

CommentCreates ==
    {[author |-> "alice", content |-> "text", comment_type |-> "user"],
     [author |-> "system", content |-> "text", comment_type |-> "system"]}

BeginCreateComment(r) ==
    /\ Accept(r, 1)
    /\ \E case_id \in CaseIds, comment \in CommentCreates :
          Set(r, [NewReq("create_comment", "cm_get", case_id, comment)
                     EXCEPT !.case_id = case_id])
    /\ UNCHANGED <<store, uuid, faults, config, cluster>>

create_comment_get(r) ==
    /\ At(r, "cm_get")
    /\ \/ /\ NoFault
          /\ IF Has(cases, req[r].id)
             THEN Set(r, [req[r] EXCEPT !.pc = "cm_insert"])
             ELSE Set(r, CaseNotFound(req[r]))
       \/ /\ CanFail /\ Fault
          /\ Set(r, CaseError(req[r]))
    /\ UNCHANGED <<store, uuid, config, cluster>>

create_comment_insert(r) ==
    /\ At(r, "cm_insert")
    /\ uuid' = uuid + 1
    /\ LET comment_obj == Comment(Uuid4(uuid + 1), req[r].id,
                                  req[r].in.author, req[r].in.content,
                                  req[r].in.comment_type) IN
       \/ /\ NoFault
          /\ comments' = comments \cup {comment_obj}
          /\ Set(r, [req[r] EXCEPT !.pc = "rc_comments", !.obj = comment_obj])
       \/ /\ CanFail /\ Fault
          /\ comments' = comments
          /\ Set(r, Raise(req[r], "Error creating comment"))
    /\ UNCHANGED <<cases, files, users, disk, alerts, config, cluster>>

-----------------------------------------------------------------------------
(* DELETE /comments/{comment_id} *)

(* Mutant: the except clause re-raises the 404 as a 500 *)
CommentNotFound_Rewrapped(rq) ==
    Respond(rq, 500, Detail("Error updating comment"))
CommentNotFound(rq) == Respond(rq, 404, Detail("Comment not found"))

BeginDeleteComment(r) ==
    /\ Accept(r, 0)
    /\ \E comment_id \in CommentIds :
          Set(r, NewReq("delete_comment", "dm_find", comment_id, None))
    /\ UNCHANGED <<store, uuid, faults, config, cluster>>

delete_comment_find(r) ==
    /\ At(r, "dm_find")
    /\ \/ /\ NoFault
          /\ IF Has(comments, req[r].id)
             THEN Set(r, [req[r] EXCEPT !.pc = "dm_delete",
                             !.case_id = Get(comments, req[r].id).case_id])
             ELSE Set(r, CommentNotFound(req[r]))
       \/ /\ CanFail /\ Fault
          /\ Set(r, Raise(req[r], "Error deleting comment"))
    /\ UNCHANGED <<store, uuid, config, cluster>>

delete_comment_delete(r) ==
    /\ At(r, "dm_delete")
    /\ \/ /\ NoFault
          /\ IF USE_OPENSEARCH /\ ~Has(comments, req[r].id)
             THEN /\ comments' = comments
                  /\ Set(r, Respond(req[r], 500, Detail("Error deleting comment")))
             ELSE /\ comments' = Without(comments, req[r].id)
                  /\ Set(r, [req[r] EXCEPT !.pc = "rc_comments"])
       \/ /\ CanFail /\ Fault
          /\ comments' = comments
          /\ Set(r, Raise(req[r], "Error deleting comment"))
    /\ UNCHANGED <<cases, files, users, disk, uuid, alerts, config, cluster>>

-----------------------------------------------------------------------------
(* PUT /comments/{comment_id} *)

(* The request body is a plain dict: the content key may be missing *)
CommentUpdates == {[content |-> "edited"], EmptyBody}

(* update_data: content.get("content") is None when the key is missing *)
CommentUpdateData(body) ==
    [content |-> IF "content" \in DOMAIN body THEN body["content"] ELSE None,
     updated_at |-> UtcNow]

(* Building the Comment validates the document: content must be a string *)
ValidComment(doc) == doc.content # None

BeginUpdateComment(r) ==
    /\ Accept(r, 0)
    /\ \E comment_id \in CommentIds, content \in CommentUpdates :
          Set(r, NewReq("update_comment",
                        IF USE_OPENSEARCH THEN "um_find" ELSE "um_update",
                        comment_id, content))
    /\ UNCHANGED <<store, uuid, faults, config, cluster>>

(* OpenSearch only: first check if the comment exists *)
update_comment_find(r) ==
    /\ At(r, "um_find")
    /\ \/ /\ NoFault
          /\ IF Has(comments, req[r].id)
             THEN Set(r, [req[r] EXCEPT !.pc = "um_update"])
             ELSE Set(r, CommentNotFound(req[r]))
       \/ /\ CanFail /\ Fault
          /\ Set(r, Raise(req[r], "Error updating comment"))
    /\ UNCHANGED <<store, uuid, config, cluster>>

(* client.update raises NotFoundError when the document is gone; update_one
   reports matched_count 0, which the handler answers with 404 *)
update_comment_update(r) ==
    /\ At(r, "um_update")
    /\ \/ /\ NoFault
          /\ comments' = UpdateOne(comments, req[r].id,
                                   CommentUpdateData(req[r].in))
          /\ IF Has(comments, req[r].id)
             THEN Set(r, [req[r] EXCEPT !.pc = "um_get"])
             ELSE IF USE_OPENSEARCH
                  THEN Set(r, Respond(req[r], 500,
                                      Detail("Error updating comment")))
                  ELSE Set(r, CommentNotFound(req[r]))
       \/ /\ CanFail /\ Fault
          /\ comments' = comments
          /\ Set(r, Raise(req[r], "Error updating comment"))
    /\ UNCHANGED <<cases, files, users, disk, uuid, alerts, config, cluster>>

(* The comment is read back and validated; a missing document or an invalid
   one raises (IndexError, TypeError, ValidationError) *)
update_comment_get(r) ==
    /\ At(r, "um_get")
    /\ \/ /\ NoFault
          /\ IF Has(comments, req[r].id)
                  /\ ValidComment(Get(comments, req[r].id))
             THEN Set(r, Respond(req[r], 200, Get(comments, req[r].id)))
             ELSE Set(r, Raise(req[r], "Error updating comment"))
       \/ /\ CanFail /\ Fault
          /\ Set(r, Raise(req[r], "Error updating comment"))
    /\ UNCHANGED <<store, uuid, config, cluster>>

-----------------------------------------------------------------------------
(* POST /cases/{case_id}/files *)

RECURSIVE LastDot(_)
LastDot(name) ==
    IF name = <<>> THEN 0
    ELSE IF name[Len(name)] = "." THEN Len(name)
    ELSE LastDot(SubSeq(name, 1, Len(name) - 1))

(* file.filename.split('.')[-1] if '.' in file.filename else '' *)
FileExtension(name) ==
    IF LastDot(name) > 0 THEN SubSeq(name, LastDot(name) + 1, Len(name))
    ELSE <<>>

(* f"{file_id}.{file_extension}" if file_extension else file_id *)
StoredFilename(file_id, name) ==
    IF FileExtension(name) # <<>> THEN <<file_id, ".">> \o FileExtension(name)
    ELSE <<file_id>>

(* file.content_type or 'application/octet-stream' *)
MimeType(upload) ==
    IF upload.content_type # None THEN upload.content_type
    ELSE "application/octet-stream"

BeginUploadFile(r) ==
    /\ Accept(r, 2)
    /\ \E case_id \in CaseIds, file \in Uploads :
          Set(r, [NewReq("upload_file", "uf_get", case_id, file)
                     EXCEPT !.case_id = case_id])
    /\ UNCHANGED <<store, uuid, faults, config, cluster>>

upload_file_get(r) ==
    /\ At(r, "uf_get")
    /\ \/ /\ NoFault
          /\ IF Has(cases, req[r].id)
             THEN Set(r, [req[r] EXCEPT !.pc = "uf_write"])
             ELSE Set(r, CaseNotFound(req[r]))
       \/ /\ CanFail /\ Fault
          /\ Set(r, CaseError(req[r]))
    /\ UNCHANGED <<store, uuid, config, cluster>>

(* aiofiles.open, file.read, f.write: the path is fresh, so no other request
   can see the file before the record exists; a failure part-way leaves at
   most a partial file, which the except clause unlinks *)
upload_file_write(r) ==
    /\ At(r, "uf_write")
    /\ uuid' = uuid + 1
    /\ LET file_path == StoredFilename(Uuid4(uuid + 1), req[r].in.filename) IN
       \/ /\ NoFault
          /\ disk' = (file_path :> req[r].in.content) @@ disk
          /\ Set(r, [req[r] EXCEPT !.pc = "uf_insert", !.path = file_path])
       \/ /\ CanFail /\ Fault
          /\ disk' = UploadCleanUp(file_path)
          /\ Set(r, Respond(req[r], 500, Detail("Error uploading file")))
    /\ UNCHANGED <<cases, comments, files, users, alerts, config, cluster>>

upload_file_insert(r) ==
    /\ At(r, "uf_insert")
    /\ uuid' = uuid + 1
    /\ LET file_obj == FileAttachment(Uuid4(uuid + 1), req[r].path,
                           req[r].in.filename, Len(req[r].in.content),
                           MimeType(req[r].in), req[r].id) IN
       \/ /\ NoFault
          /\ files' = files \cup {file_obj}
          /\ disk' = disk
          /\ Set(r, [req[r] EXCEPT !.pc = "rc_comments", !.obj = file_obj])
       \/ /\ CanFail /\ Fault
          /\ files' = files
          /\ disk' = UploadCleanUp(req[r].path)
          /\ Set(r, Respond(req[r], 500, Detail("Error uploading file")))
    /\ UNCHANGED <<cases, comments, users, alerts, config, cluster>>

-----------------------------------------------------------------------------
(* GET /files/{file_id}/download *)

BeginDownloadFile(r) ==
    /\ Accept(r, 0)
    /\ \E file_id \in FileIds :
          Set(r, NewReq("download_file", "df_find", file_id, None))
    /\ UNCHANGED <<store, uuid, faults, config, cluster>>

download_file_find(r) ==
    /\ At(r, "df_find")
    /\ \/ /\ NoFault
          /\ IF ~Has(files, req[r].id)
             THEN Set(r, Respond(req[r], 404, Detail("File not found")))
             ELSE LET file_data == Get(files, req[r].id) IN
                  IF ~Exists(file_data.filename)
                  THEN Set(r, Respond(req[r], 404,
                                      Detail("File not found on disk")))
                  ELSE Set(r, [req[r] EXCEPT !.pc = "df_send",
                                  !.obj = file_data])
       \/ /\ CanFail /\ Fault
          /\ Set(r, Raise(req[r], "Error retrieving file"))
    /\ UNCHANGED <<store, uuid, config, cluster>>

(* FileResponse(path, filename, media_type) reads the file when the response
   is sent; it raises if the file has gone by then *)
download_file_send(r) ==
    /\ At(r, "df_send")
    /\ IF Exists(req[r].obj.filename)
       THEN Set(r, Respond(req[r], 200,
                    [content |-> disk[req[r].obj.filename],
                     filename |-> req[r].obj.original_filename,
                     media_type |-> req[r].obj.mime_type]))
       ELSE Set(r, Unhandled(req[r]))
    /\ UNCHANGED <<store, uuid, faults, config, cluster>>

-----------------------------------------------------------------------------
(* DELETE /files/{file_id} *)

BeginDeleteFile(r) ==
    /\ Accept(r, 0)
    /\ \E file_id \in FileIds :
          Set(r, NewReq("delete_file", "xf_find", file_id, None))
    /\ UNCHANGED <<store, uuid, faults, config, cluster>>

delete_file_find(r) ==
    /\ At(r, "xf_find")
    /\ \/ /\ NoFault
          /\ IF Has(files, req[r].id)
             THEN LET file_data == Get(files, req[r].id) IN
                  Set(r, [req[r] EXCEPT !.pc = "xf_delete", !.obj = file_data,
                             !.case_id = file_data.case_id])
             ELSE Set(r, Respond(req[r], 404, Detail("File not found")))
       \/ /\ CanFail /\ Fault
          /\ Set(r, Raise(req[r], "Error deleting file"))
    /\ UNCHANGED <<store, uuid, config, cluster>>

(* The record is deleted, then the file is unlinked if it exists *)
delete_file_delete(r) ==
    /\ At(r, "xf_delete")
    /\ \/ /\ NoFault
          /\ IF USE_OPENSEARCH /\ ~Has(files, req[r].id)
             THEN /\ files' = files
                  /\ disk' = disk
                  /\ Set(r, Respond(req[r], 500, Detail("Error deleting file")))
             ELSE /\ files' = Without(files, req[r].id)
                  /\ disk' = IF Exists(req[r].obj.filename)
                             THEN Unlink(disk, req[r].obj.filename)
                             ELSE disk
                  /\ Set(r, [req[r] EXCEPT !.pc = "rc_comments"])
       \/ /\ CanFail /\ Fault
          /\ files' = files
          /\ disk' = disk
          /\ Set(r, Raise(req[r], "Error deleting file"))
    /\ UNCHANGED <<cases, comments, users, uuid, alerts, config, cluster>>

-----------------------------------------------------------------------------
-----------------------------------------------------------------------------
(* POST /alerts and POST /alerts/{alert_id}/create-case.  The handlers are
   not in server.py, which has the Alert models and ALERTS_INDEX only; they
   follow the design document: the case takes the alert's title when the
   body has none, gets the tags alert and severity-<severity> and the
   alert's id, is created like any case (system comment, counter refresh),
   and its id is then written onto the alert, with no atomicity *)

AlertCreates == {[title |-> <<"a", "b", " ", "c">>, severity |-> "critical"],
                 [title |-> <<"c">>, severity |-> "low"]}

(* The create-case bodies: title, priority and tags may be left out *)
PromoteBodies ==
    {[created_by |-> "alice"],
     [title |-> <<"c">>, priority |-> "low", tags |-> {"critical"},
      created_by |-> "bob"]}

Alert(id, alert) ==
    [id |-> id, title |-> alert.title, severity |-> alert.severity,
     status |-> "active", case_id |-> None]

AlertIds == {a.id : a \in alerts} \cup {NonExistentId}

(* The priority of a case promoted without one: high for a critical alert
   (test_alert_to_case_creation), the CaseCreate default otherwise *)
SeverityPriority(severity) ==
    IF severity = "critical" THEN "high" ELSE "medium"

CaseFromAlert(id, created_at, alert, body) ==
    LET case == [title |-> IF "title" \in DOMAIN body
                           THEN body["title"] ELSE alert.title,
                 priority |-> IF "priority" \in DOMAIN body
                              THEN body["priority"]
                              ELSE SeverityPriority(alert.severity),
                 created_by |-> body["created_by"]]
        tags == IF "tags" \in DOMAIN body THEN body["tags"] ELSE {} IN
    [Case(id, created_at, case) EXCEPT
        !.tags = tags \cup {"alert", "severity-" \o alert.severity},
        !.alert_id = alert.id]

BeginCreateAlert(r) ==
    /\ Accept(r, 1)
    /\ \E alert \in AlertCreates :
          Set(r, NewReq("create_alert", "al_insert", None, alert))
    /\ UNCHANGED <<store, uuid, faults, config, cluster>>

create_alert(r) ==
    /\ At(r, "al_insert")
    /\ uuid' = uuid + 1
    /\ LET alert_obj == Alert(Uuid4(uuid + 1), req[r].in) IN
       \/ /\ NoFault
          /\ alerts' = alerts \cup {alert_obj}
          /\ Set(r, Respond(req[r], 200, alert_obj))
       \/ /\ CanFail /\ Fault
          /\ alerts' = alerts
          /\ Set(r, Raise(req[r], "Error creating alert"))
    /\ UNCHANGED <<cases, comments, files, users, disk, config, cluster>>

BeginCreateCaseFromAlert(r) ==
    /\ Accept(r, 2)
    /\ \E alert_id \in AlertIds, body \in PromoteBodies :
          Set(r, NewReq("create_case_from_alert", "ap_get", alert_id, body))
    /\ UNCHANGED <<store, uuid, faults, config, cluster>>

create_case_from_alert_get(r) ==
    /\ At(r, "ap_get")
    /\ \/ /\ NoFault
          /\ IF Has(alerts, req[r].id)
             THEN Set(r, [req[r] EXCEPT !.pc = "ap_insert",
                             !.obj = Get(alerts, req[r].id)])
             ELSE Set(r, Respond(req[r], 404, Detail("Alert not found")))
       \/ /\ CanFail /\ Fault
          /\ Set(r, Raise(req[r], "Error creating case from alert"))
    /\ UNCHANGED <<store, uuid, config, cluster>>

create_case_from_alert_insert(r) ==
    /\ At(r, "ap_insert")
    /\ uuid' = uuid + 1
    /\ LET case_obj == CaseFromAlert(Uuid4(uuid + 1), uuid + 1,
                                     req[r].obj, req[r].in) IN
       \/ /\ NoFault
          /\ cases' = cases \cup {case_obj}
          /\ Set(r, [req[r] EXCEPT !.pc = "ap_comment", !.obj = case_obj,
                        !.case_id = case_obj.id])
       \/ /\ CanFail /\ Fault
          /\ cases' = cases
          /\ Set(r, Raise(req[r], "Error creating case from alert"))
    /\ UNCHANGED <<comments, files, users, alerts, disk, config, cluster>>

create_case_from_alert_comment(r) ==
    /\ At(r, "ap_comment")
    /\ uuid' = uuid + 1
    /\ \/ /\ NoFault
          /\ comments' = comments \cup
                 {SystemComment(Uuid4(uuid + 1), req[r].case_id)}
          /\ Set(r, [Logged(req[r], "system_comment")
                        EXCEPT !.pc = "rc_comments"])
       \/ /\ CanFail /\ Fault
          /\ comments' = comments
          /\ Set(r, Raise(req[r], "Error creating case from alert"))
    /\ UNCHANGED <<cases, files, users, alerts, disk, config, cluster>>

(* The case's id is written back onto the alert *)
create_case_from_alert_link(r) ==
    /\ At(r, "ap_link")
    /\ \/ /\ NoFault
          /\ alerts' = UpdateOne(alerts, req[r].id,
                                 [case_id |-> req[r].case_id])
          /\ Set(r, Respond(req[r], 200, req[r].obj))
       \/ /\ CanFail /\ Fault
          /\ alerts' = alerts
          /\ Set(r, Raise(req[r], "Error creating case from alert"))
    /\ UNCHANGED <<cases, comments, files, users, disk, uuid, config, cluster>>

(* GET /stats *)

CasePriority == <<"low", "medium", "high", "critical">>

(* A terms aggregation: one bucket per value present, with its doc_count *)
Terms(coll, field) ==
    [k \in {d[field] : d \in coll} |->
        Cardinality({d \in coll : d[field] = k})]

(* A value_count aggregation: the documents that have a value in the field *)
ValueCount(coll, field) ==
    Cardinality({d \in coll : field \in DOMAIN d /\ d[field] # None})

(* dict.get(key, default) *)
DictGet(dict, key, default) ==
    IF key \in DOMAIN dict THEN dict[key] ELSE default

(* Mutant: the query is ignored, every document counts *)
CountDocuments_Unfiltered(coll, query) == Cardinality(coll)

(* count_documents(query): the documents equal to the query on its fields *)
CountDocuments(coll, query) ==
    Cardinality({d \in coll : \A f \in DOMAIN query : d[f] = query[f]})

(* The count_documents calls of the MongoDB branch, in the order they are
   awaited: the result's key, the collection, the query *)
MongoStats ==
    <<[key |-> "total_cases", index |-> "cases", query |-> <<>>],
      [key |-> "open_cases", index |-> "cases", query |-> [status |-> "open"]],
      [key |-> "in_progress_cases", index |-> "cases",
       query |-> [status |-> "in_progress"]],
      [key |-> "closed_cases", index |-> "cases",
       query |-> [status |-> "closed"]]>>
    \o [i \in DOMAIN CasePriority |->
          [key |-> CasePriority[i], index |-> "cases",
           query |-> [priority |-> CasePriority[i]]]]
    \o <<[key |-> "total_alerts", index |-> "alerts", query |-> <<>>]>>

Collection(index) == IF index = "cases" THEN cases ELSE alerts

(* The response of the OpenSearch branch, from the two aggregations *)
OpenSearchStats(case_aggs, alert_aggs) ==
    [total_cases |-> case_aggs.total_cases,
     open_cases |-> DictGet(case_aggs.status_breakdown, "open", 0),
     in_progress_cases |-> DictGet(case_aggs.status_breakdown, "in_progress", 0),
     closed_cases |-> DictGet(case_aggs.status_breakdown, "closed", 0),
     priority_stats |-> case_aggs.priority_breakdown,
     total_alerts |-> alert_aggs.total_alerts,
     alert_severity_stats |-> alert_aggs.severity_breakdown,
     alert_status_stats |-> alert_aggs.status_breakdown]

(* The response of the MongoDB branch, from the counts it has read *)
MongoDBStats(counts) ==
    [total_cases |-> counts["total_cases"],
     open_cases |-> counts["open_cases"],
     in_progress_cases |-> counts["in_progress_cases"],
     closed_cases |-> counts["closed_cases"],
     priority_stats |-> [p \in {CasePriority[i] : i \in DOMAIN CasePriority}
                           |-> counts[p]],
     total_alerts |-> counts["total_alerts"],
     alert_severity_stats |-> <<>>,
     alert_status_stats |-> <<>>]

BeginGetStats(r) ==
    /\ Accept(r, 0)
    /\ Set(r, [NewReq("get_stats",
                      IF USE_OPENSEARCH THEN "st_cases" ELSE "st_count",
                      None, None)
                  EXCEPT !.obj = <<>>])
    /\ UNCHANGED <<store, uuid, faults, config, cluster>>

(* client.search on CASES_INDEX with the three aggregations *)
get_stats_cases(r) ==
    /\ At(r, "st_cases")
    /\ \/ /\ NoFault
          /\ Set(r, [req[r] EXCEPT !.pc = "st_alerts", !.obj =
                 [total_cases |-> ValueCount(cases, "id"),
                  status_breakdown |-> Terms(cases, "status"),
                  priority_breakdown |-> Terms(cases, "priority")]])
       \/ /\ CanFail /\ Fault
          /\ Set(r, Raise(req[r], "Error retrieving stats"))
    /\ UNCHANGED <<store, uuid, config, cluster>>

(* client.search on ALERTS_INDEX, then the response is put together *)
get_stats_alerts(r) ==
    /\ At(r, "st_alerts")
    /\ \/ /\ NoFault
          /\ Set(r, Respond(req[r], 200, OpenSearchStats(req[r].obj,
                 [total_alerts |-> ValueCount(alerts, "id"),
                  severity_breakdown |-> Terms(alerts, "severity"),
                  status_breakdown |-> Terms(alerts, "status")])))
       \/ /\ CanFail /\ Fault
          /\ Set(r, Raise(req[r], "Error retrieving stats"))
    /\ UNCHANGED <<store, uuid, config, cluster>>

(* The next count_documents of the MongoDB branch; after the last one the
   response is put together.  cc numbers the calls made so far *)
get_stats_count(r) ==
    /\ At(r, "st_count")
    /\ LET call == MongoStats[req[r].cc + 1]
           counts == (call.key :> CountDocuments(Collection(call.index),
                                                 call.query)) @@ req[r].obj IN
       \/ /\ NoFault
          /\ IF req[r].cc + 1 < Len(MongoStats)
             THEN Set(r, [req[r] EXCEPT !.cc = @ + 1, !.obj = counts])
             ELSE Set(r, Respond([req[r] EXCEPT !.cc = 0], 200,
                                 MongoDBStats(counts)))
       \/ /\ CanFail /\ Fault
          /\ Set(r, Unhandled(req[r]))
    /\ UNCHANGED <<store, uuid, config, cluster>>

-----------------------------------------------------------------------------
(* startup_event and initialize_opensearch_indices *)

(* indices_mappings, in the order the loop visits it *)
indices_mappings == <<"cases", "comments", "files", "users", "alerts">>
IndexNames == {indices_mappings[i] : i \in DOMAIN indices_mappings}

(* A process in startup_event: the index the loop is at *)
Starting == [pc |-> "exists", index |-> 1]
Started == [pc |-> "started", index |-> 0]

(* The loop moves to the next index; after the last, startup_event goes on
   to client.info *)
NextIndex(s) ==
    IF s.index < Len(indices_mappings)
    THEN [pc |-> "exists", index |-> s.index + 1]
    ELSE [pc |-> "info", index |-> 0]

(* client.indices.create on a name the cluster holds raises
   resource_already_exists_exception *)
CreateRaises(name) == name \in indices

(* exists = client.indices.exists(index=index_name) *)
indices_exists(p) ==
    /\ startup[p].pc = "exists"
    /\ LET index_name == indices_mappings[startup[p].index] IN
          startup' = [startup EXCEPT ![p] =
              IF index_name \in indices THEN NextIndex(@)
              ELSE [@ EXCEPT !.pc = "create"]]
    /\ UNCHANGED <<store, uuid, req, faults, config, hist, indices>>

(* client.indices.create(index=index_name, body=mapping); the except logs
   the exception and re-raises it, and so does startup_event: the process
   does not start *)
indices_create(p) ==
    /\ startup[p].pc = "create"
    /\ LET index_name == indices_mappings[startup[p].index] IN
          IF CreateRaises(index_name)
          THEN /\ indices' = indices
               /\ startup' = [startup EXCEPT ![p].pc = "failed"]
          ELSE /\ indices' = indices \cup {index_name}
               /\ startup' = [startup EXCEPT ![p] = NextIndex(@)]
    /\ UNCHANGED <<store, uuid, req, faults, config, hist>>

(* info = client.info(), then "Backend initialized successfully" *)
startup_info(p) ==
    /\ startup[p].pc = "info"
    /\ startup' = [startup EXCEPT ![p] = Started]
    /\ UNCHANGED <<store, uuid, req, faults, config, hist, indices>>

startup_event(p) == indices_exists(p) \/ indices_create(p) \/ startup_info(p)

(* Server processes start against a search cluster that holds any of the
   indices already *)
InitStartup ==
    /\ USE_OPENSEARCH = TRUE
    /\ cases = {} /\ comments = {} /\ files = {} /\ users = {}
    /\ alerts = {} /\ disk = <<>> /\ uuid = 0
    /\ req = [r \in Reqs |-> Idle]
    /\ faults = 0 /\ faultBudget = 0
    /\ concurrency = 0 /\ tracking = FALSE
    /\ hist = NoHistory
    /\ indices \in SUBSET IndexNames
    /\ startup = [p \in Procs |-> Starting]

NextStartup == \E p \in Procs : startup_event(p)
SpecStartup == InitStartup /\ [][NextStartup]_vars

-----------------------------------------------------------------------------
(* The processes are up: startup_event has run in each *)
Start(budget, inflight, track) ==
    /\ USE_OPENSEARCH \in BOOLEAN
    /\ cases = {}
    /\ comments = {}
    /\ files = {}
    /\ users = {}
    /\ alerts = {}
    /\ disk = <<>>
    /\ uuid = 0
    /\ req = [r \in Reqs |-> Idle]
    /\ faults = 0
    /\ faultBudget = budget
    /\ concurrency = inflight
    /\ tracking = track
    /\ hist = NoHistory
    /\ indices = IF USE_OPENSEARCH THEN IndexNames ELSE {}
    /\ startup = [p \in Procs |-> Started]

CreateUser(r) ==
    BeginCreateUser(r) \/ create_user_check(r) \/ create_user_insert(r)

CreateCase(r) ==
    BeginCreateCase(r) \/ create_case_insert(r) \/ create_case_comment(r)

GetCase(r) == BeginGetCase(r) \/ get_case(r)
GetCases(r) == BeginGetCases(r) \/ get_cases(r)

GetStats(r) ==
    \/ BeginGetStats(r)
    \/ get_stats_cases(r) \/ get_stats_alerts(r) \/ get_stats_count(r)

UpdateCase(r) ==
    \/ BeginUpdateCase(r)
    \/ update_case_get(r) \/ update_case_update(r)
    \/ update_case_comment(r) \/ update_case_reget(r)

DeleteCase(r) ==
    \/ BeginDeleteCase(r)
    \/ delete_case_get(r) \/ delete_case_comments(r)
    \/ delete_case_files(r) \/ delete_case_case(r)

CreateComment(r) ==
    BeginCreateComment(r) \/ create_comment_get(r) \/ create_comment_insert(r)

DeleteComment(r) ==
    BeginDeleteComment(r) \/ delete_comment_find(r) \/ delete_comment_delete(r)

UpdateComment(r) ==
    \/ BeginUpdateComment(r)
    \/ update_comment_find(r)
    \/ update_comment_update(r)
    \/ update_comment_get(r)

UploadFile(r) ==
    \/ BeginUploadFile(r)
    \/ upload_file_get(r) \/ upload_file_write(r) \/ upload_file_insert(r)

DownloadFile(r) ==
    BeginDownloadFile(r) \/ download_file_find(r) \/ download_file_send(r)

DeleteFile(r) ==
    BeginDeleteFile(r) \/ delete_file_find(r) \/ delete_file_delete(r)

CreateAlert(r) == BeginCreateAlert(r) \/ create_alert(r)

CreateCaseFromAlert(r) ==
    \/ BeginCreateCaseFromAlert(r)
    \/ create_case_from_alert_get(r)
    \/ create_case_from_alert_insert(r)
    \/ create_case_from_alert_comment(r)
    \/ create_case_from_alert_link(r)

UpdateCaseCounts(r) == count_comments(r) \/ count_files(r) \/ update_counts(r)

(* The whole API, once the processes are up *)
Next ==
    \E r \in Reqs :
        \/ CreateUser(r)
        \/ CreateCase(r) \/ GetCases(r) \/ GetCase(r)
        \/ UpdateCase(r) \/ DeleteCase(r)
        \/ CreateComment(r) \/ UpdateComment(r) \/ DeleteComment(r)
        \/ UploadFile(r) \/ DownloadFile(r) \/ DeleteFile(r)
        \/ CreateAlert(r) \/ CreateCaseFromAlert(r) \/ GetStats(r)
        \/ UpdateCaseCounts(r) \/ Reply(r)

(* The routes that read or write cases, comments and files *)
NextCases ==
    \E r \in Reqs :
        \/ CreateCase(r) \/ GetCase(r) \/ UpdateCase(r) \/ DeleteCase(r)
        \/ CreateComment(r) \/ DeleteComment(r)
        \/ UploadFile(r) \/ DownloadFile(r) \/ DeleteFile(r)
        \/ UpdateCaseCounts(r) \/ Reply(r)

(* The routes that create or delete a case or one of its children *)
NextChildren ==
    \E r \in Reqs :
        \/ CreateCase(r) \/ DeleteCase(r)
        \/ CreateComment(r) \/ DeleteComment(r)
        \/ UploadFile(r) \/ DeleteFile(r)
        \/ UpdateCaseCounts(r) \/ Reply(r)

(* The routes of cases and comments *)
NextComments ==
    \E r \in Reqs :
        \/ CreateCase(r) \/ GetCase(r) \/ UpdateCase(r) \/ DeleteCase(r)
        \/ CreateComment(r) \/ DeleteComment(r)
        \/ UpdateCaseCounts(r) \/ Reply(r)

(* The routes of files, with the creation and deletion of their cases *)
NextFiles ==
    \E r \in Reqs :
        \/ CreateCase(r) \/ DeleteCase(r)
        \/ UploadFile(r) \/ DownloadFile(r) \/ DeleteFile(r)
        \/ UpdateCaseCounts(r) \/ Reply(r)

NextUsers == \E r \in Reqs : CreateUser(r) \/ Reply(r)

(* Comments are created and deleted *)
NextRace ==
    \E r \in Reqs :
        \/ CreateCase(r) \/ CreateComment(r) \/ DeleteComment(r)
        \/ UpdateCaseCounts(r) \/ Reply(r)

(* Children are added while cases are deleted *)
NextOrphans ==
    \E r \in Reqs :
        \/ CreateCase(r) \/ DeleteCase(r) \/ CreateComment(r)
        \/ UploadFile(r)
        \/ UpdateCaseCounts(r) \/ Reply(r)

(* Cases are created, updated and deleted *)
NextDeleted ==
    \E r \in Reqs :
        \/ CreateCase(r) \/ UpdateCase(r) \/ DeleteCase(r)
        \/ UpdateCaseCounts(r) \/ Reply(r)

(* Cases are created, updated and deleted, and the statistics read *)
NextStats ==
    \E r \in Reqs :
        \/ CreateCase(r) \/ UpdateCase(r) \/ DeleteCase(r) \/ GetStats(r)
        \/ UpdateCaseCounts(r) \/ Reply(r)

(* Comments are created and edited *)
NextEdits ==
    \E r \in Reqs :
        \/ CreateCase(r) \/ CreateComment(r) \/ UpdateComment(r)
        \/ UpdateCaseCounts(r) \/ Reply(r)

(* Alerts are created and promoted to cases *)
NextAlerts ==
    \E r \in Reqs :
        \/ CreateAlert(r) \/ CreateCaseFromAlert(r)
        \/ UpdateCaseCounts(r) \/ Reply(r)

(* Cases are created and updated *)
NextStatus ==
    \E r \in Reqs :
        \/ CreateCase(r) \/ UpdateCase(r)
        \/ UpdateCaseCounts(r) \/ Reply(r)

(* Cases are created, updated and listed *)
NextList ==
    \E r \in Reqs :
        \/ CreateCase(r) \/ UpdateCase(r) \/ GetCases(r)
        \/ UpdateCaseCounts(r) \/ Reply(r)

(* The routes that write a case, a comment or a file *)
NextMutations ==
    \E r \in Reqs :
        \/ CreateCase(r) \/ UpdateCase(r) \/ DeleteCase(r)
        \/ CreateComment(r) \/ UpdateComment(r) \/ DeleteComment(r)
        \/ UploadFile(r) \/ DeleteFile(r)
        \/ UpdateCaseCounts(r) \/ Reply(r)

(* Concurrent requests, storage calls may raise *)
Init == Start(MaxFaults, MaxInFlight, FALSE)
Spec == Init /\ [][Next]_vars

(* One request at a time, no storage call raises *)
InitSeq == Start(0, 1, FALSE)
SpecSeq == InitSeq /\ [][NextCases]_vars

SpecAlerts == InitSeq /\ [][NextAlerts]_vars
SpecList == InitSeq /\ [][NextList]_vars
SpecMutations == InitSeq /\ [][NextMutations]_vars
SpecStats == InitSeq /\ [][NextStats]_vars
SpecEdits == InitSeq /\ [][NextEdits]_vars

(* One request at a time, storage calls may raise *)
InitSeqFaults == Start(MaxFaults, 1, FALSE)
SpecSeqFaults == InitSeqFaults /\ [][NextCases]_vars
SpecFaults == Init /\ [][NextChildren]_vars
SpecFilesFaults == InitSeqFaults /\ [][NextFiles]_vars
SpecStatusFaults == InitSeqFaults /\ [][NextStatus]_vars

(* One request at a time, no storage call raises, the history recorded *)
InitSeqTracked == Start(0, 1, TRUE)
SpecComments == InitSeqTracked /\ [][NextComments]_vars
SpecFiles == InitSeqTracked /\ [][NextFiles]_vars

(* Two requests at a time, no storage call raises *)
InitPair == Start(0, 2, FALSE)
SpecRace == InitPair /\ [][NextRace]_vars
SpecOrphans == InitPair /\ [][NextOrphans]_vars

(* Two requests at a time, no storage call raises, the history recorded *)
InitPairTracked == Start(0, 2, TRUE)
SpecDeleted == InitPairTracked /\ [][NextDeleted]_vars
SpecRecount == InitPairTracked /\ [][NextRace]_vars

(* Concurrent create_user requests, no storage call raises *)
InitUsers == Start(0, MaxInFlight, FALSE)
SpecUsers == InitUsers /\ [][NextUsers]_vars

-----------------------------------------------------------------------------
(* Claims *)

Done(r, op) == req[r].op = op /\ req[r].pc = "done"

(* C1: with requests run one at a time and no storage call raising, after
   every completed request each stored case's comments_count is the number of
   comment records of that case, and its attachments_count the number of file
   records of that case *)
C1_CountsEqualLiveChildren ==
    Quiescent =>
        \A c \in cases :
            /\ c.comments_count = Cardinality({m \in comments : m.case_id = c.id})
            /\ c.attachments_count = Cardinality({f \in files : f.case_id = c.id})

(* A case that has gained a file and lost its only comment *)
C1_Witness ==
    /\ Quiescent
    /\ \E c \in cases : c.attachments_count = 1 /\ c.comments_count = 0

(* C2: the record a successful create_case returns has comments_count 1 and
   attachments_count 0 *)
C2_CreateCaseReturnsCounts ==
    \A r \in Reqs :
        Done(r, "create_case") /\ req[r].status = 200 =>
            /\ req[r].body.comments_count = 1
            /\ req[r].body.attachments_count = 0

(* N: the successful create_comment requests on a case; k: those of their
   comments that successful delete_comment requests removed *)
Created(case_id) == {m \in hist.made : m.case_id = case_id}
Deleted(case_id) == {m \in Created(case_id) : m.id \in hist.gone}

(* C3, as claimed: after N successful create_comment requests on a case and
   the successful deletion of k of those comments, GET of the case reports
   comments_count = N - k *)
C3_GetReportsCreatedMinusDeleted ==
    \A r \in Reqs :
        Done(r, "get_case") /\ req[r].status = 200 =>
            req[r].body.comments_count =
                Cardinality(Created(req[r].id)) - Cardinality(Deleted(req[r].id))

(* C3, amended: the system comment of create_case is counted too, so GET
   reports comments_count = 1 + N - k, for a case whose status no update_case
   has set and whose creation comment has not been deleted *)
C3_GetReportsOnePlusCreatedMinusDeleted ==
    \A r \in Reqs :
        Done(r, "get_case") /\ req[r].status = 200
                            /\ req[r].id \notin hist.other =>
            req[r].body.comments_count =
                1 + Cardinality(Created(req[r].id))
                  - Cardinality(Deleted(req[r].id))

(* GET of a case after two comments were created on it and one of them deleted *)
C3_Witness ==
    \E r \in Reqs :
        /\ Done(r, "get_case") /\ req[r].status = 200
        /\ req[r].id \notin hist.other
        /\ Cardinality(Created(req[r].id)) = 2
        /\ Cardinality(Deleted(req[r].id)) = 1

CountPcs == {"rc_comments", "rc_files", "rc_update"}

(* Request r takes a step in which its storage call raises *)
Raises(r) == faults' = faults + 1 /\ req'[r] # req[r]

(* C4: when a storage call of update_case_counts raises, the handler that
   called it goes on as if it had returned: create_case, create_comment,
   delete_comment, upload_file and delete_file answer 200, update_case goes
   on to read the case back *)
C4_CountFailureNeverFailsRequest ==
    [][\A r \in Reqs :
          req[r].pc \in CountPcs /\ Raises(r) => req'[r] = AfterCounts(req[r])]_vars

(* No uuid4() call has returned this id *)
NeverCreated(id) == id \notin {Uuid4(n) : n \in 1..uuid}

(* C5: GET /cases/{id} of an id that was never created answers 404 with a
   detail field and changes nothing stored, under both backends *)
C5_GetMissingCaseIs404 ==
    [][\A r \in Reqs :
          At(r, "gc_get") /\ NeverCreated(req[r].id) /\ req'[r] # req[r] =>
              /\ req'[r].pc = "done"
              /\ req'[r].status = 404
              /\ "detail" \in DOMAIN req'[r].body
              /\ store' = store]_vars

(* A GET of such an id has been answered, while a case is stored *)
C5_Witness ==
    \E r \in Reqs :
        /\ Done(r, "get_case") /\ NeverCreated(req[r].id)
        /\ req[r].status = 404
        /\ cases # {}

(* Some user record has this username *)
Stored(username) == username \in {u.username : u \in users}

(* C6: create_user with a username not yet stored answers 200, stores exactly
   one user record and returns a generated id distinct from the username;
   create_user with a stored username answers 400 and leaves users unchanged *)
C6_CreateUserContract ==
    [][\A r \in Reqs :
          req[r].op = "create_user" /\ req'[r] # req[r] =>
              CASE At(r, "cu_check") /\ Stored(req[r].in) ->
                      /\ req'[r].pc = "done"
                      /\ req'[r].status = 400
                      /\ users' = users
                [] At(r, "cu_check") /\ ~Stored(req[r].in) ->
                      /\ req'[r].pc = "cu_insert"
                      /\ users' = users
                [] At(r, "cu_insert") ->
                      /\ req'[r].pc = "done"
                      /\ req'[r].status = 200
                      /\ req'[r].body.username = req[r].in
                      /\ req'[r].body.id # req[r].in
                      /\ req'[r].body.id \in {Uuid4(n) : n \in 1..uuid'}
                      /\ req'[r].body \notin users
                      /\ users' = users \cup {req'[r].body}
                [] OTHER -> TRUE]_vars

(* A second create_user with a stored username has been answered 400 *)
C6_Witness ==
    \E r \in Reqs :
        /\ Done(r, "create_user") /\ req[r].status = 400
        /\ Cardinality({u \in users : u.username = req[r].in}) = 1

(* C7: no two user records have the same username, whatever the interleaving
   of concurrent create_user requests *)
C7_UsernamesUnique ==
    \A u, v \in users : u.username = v.username => u = v

(* The record of an upload, by the id upload_file returned *)
Uploaded(file_id) == {u \in hist.uploaded : u[1].id = file_id}
RemovedIds == {f.id : f \in hist.removed}

(* C8: after a successful upload_file, download_file of the returned id returns
   the uploaded bytes, the original filename and the recorded mime type (as
   long as neither the file nor its case has been deleted); after a successful
   delete_file of that id the record and the disk file are gone and
   download_file answers 404 *)
C8_UploadDownloadDelete ==
    \A u \in hist.uploaded :
        LET f == u[1]
            file == u[2] IN
        IF f.id \in RemovedIds
        THEN /\ ~Has(files, f.id)
             /\ ~Exists(f.filename)
             /\ \A r \in Reqs :
                   Done(r, "download_file") /\ req[r].id = f.id =>
                       req[r].status = 404
        ELSE \A r \in Reqs :
                 Done(r, "download_file") /\ req[r].id = f.id
                                          /\ Has(cases, f.case_id) =>
                     /\ req[r].status = 200
                     /\ req[r].body.content = file.content
                     /\ req[r].body.filename = file.filename
                     /\ req[r].body.media_type =
                            IF file.content_type = None
                            THEN "application/octet-stream"
                            ELSE file.content_type

(* A file that was uploaded, downloaded and deleted, and a further download
   of it answered 404 *)
C8_Witness ==
    \E r \in Reqs :
        /\ Done(r, "download_file") /\ req[r].status = 404
        /\ req[r].id \in hist.served
        /\ req[r].id \in RemovedIds
        /\ Uploaded(req[r].id) # {}

(* C9: after every completed request a file record exists if and only if its
   stored file exists on disk *)
C9_RecordIffDiskFile ==
    Quiescent =>
        /\ \A f \in files : Exists(f.filename)
        /\ \A path \in DOMAIN disk : \E f \in files : f.filename = path

(* C10: when upload_file has written the bytes and the metadata insert raises,
   the handler deletes the file it wrote and answers 500; no file record is
   added and no case record changes *)
C10_FailedInsertCleansUp ==
    [][\A r \in Reqs :
          At(r, "uf_insert") /\ Raises(r) =>
              /\ req'[r].pc = "done"
              /\ req'[r].status = 500
              /\ Exists(req[r].path)
              /\ req[r].path \notin DOMAIN disk'
              /\ files' = files
              /\ cases' = cases]_vars

(* An upload answered 500 after its bytes were written and before any record
   of it was stored *)
C10_Witness ==
    \E r \in Reqs :
        /\ Done(r, "upload_file") /\ req[r].status = 500
        /\ req[r].path # None
        /\ \A f \in files : f.filename # req[r].path
        /\ ~Exists(req[r].path)

(* C11: for every stored case, closed_at is set if and only if its status is
   closed *)
C11_ClosedAtIffClosed ==
    \A c \in cases : (c.closed_at # None) <=> (c.status = "closed")

(* Request r finishes in this step *)
Finishes(r) == req[r].pc # "done" /\ req'[r].pc = "done"

(* create_case, or update_case with a status in its body *)
AnnouncesStatus(rq) ==
    \/ rq.op = "create_case"
    \/ rq.op = "update_case" /\ "status" \in DOMAIN rq.in

(* C12: a create_case, or an update_case that supplies a status, adds
   comments only one at a time, each a system comment by author 'system' on
   the request's case, and when it answers 200 it has inserted exactly one
   such comment and then run the counter refresh of that case *)
C12_SystemCommentThenRefresh ==
    [][\A r \in Reqs :
          AnnouncesStatus(req[r]) /\ req'[r] # req[r] =>
              /\ comments' # comments =>
                    \E m \in comments' \ comments :
                        /\ comments' = comments \cup {m}
                        /\ m.comment_type = "system"
                        /\ m.author = "system"
                        /\ m.case_id = req[r].case_id
                        /\ req'[r].pc = "rc_comments"
              /\ Finishes(r) /\ req'[r].status = 200 =>
                    req'[r].log = <<"system_comment", "update_case_counts">>]_vars

(* An update_case that closed a case has answered 200 *)
C12_Witness ==
    \E r \in Reqs :
        /\ Done(r, "update_case") /\ req[r].status = 200
        /\ req[r].in = [status |-> "closed"]
        /\ \E m \in comments :
              m.case_id = req[r].id /\ m.comment_type = "system"
        /\ Cardinality({m \in comments : m.case_id = req[r].id}) = 2

(* C13: update_case with status t on a stored case of status s, for every s
   and t, writes status t, and the request answers 200 with status t *)
C13_AnyStatusTransition ==
    [][\A r \in Reqs : \A s, t \in CaseStatus :
          /\ req[r].op = "update_case" /\ req'[r] # req[r]
          /\ req[r].in = [status |-> t]
          /\ Has(cases, req[r].id) /\ Get(cases, req[r].id).status = s
          => /\ At(r, "uc_update") =>
                   /\ Has(cases', req[r].id)
                   /\ Get(cases', req[r].id).status = t
                   /\ req'[r].pc = "uc_comment"
             /\ Finishes(r) =>
                   /\ req'[r].status = 200
                   /\ req'[r].body.status = t
                   /\ Get(cases', req[r].id).status = t]_vars

(* A closed case was reopened: the update answered 200 with status open, and
   closed_at still carries the earlier closing *)
C13_Witness ==
    \E r \in Reqs :
        /\ Done(r, "update_case") /\ req[r].status = 200
        /\ req[r].in = [status |-> "open"]
        /\ req[r].body.status = "open"
        /\ req[r].body.closed_at # None

(* C14: delete_case removes only records of its case, and when it answers 200
   the case record and every comment and file record of the case are gone *)
C14_DeleteCaseCascades ==
    [][\A r \in Reqs :
          req[r].op = "delete_case" /\ req'[r] # req[r] =>
              /\ \A c \in cases : c.id # req[r].id => c \in cases'
              /\ \A m \in comments : m.case_id # req[r].id => m \in comments'
              /\ \A f \in files : f.case_id # req[r].id => f \in files'
              /\ cases' \subseteq cases
              /\ comments' \subseteq comments
              /\ files' \subseteq files
              /\ Finishes(r) /\ req'[r].status = 200 =>
                    /\ ~Has(cases', req[r].id)
                    /\ \A m \in comments' : m.case_id # req[r].id
                    /\ \A f \in files' : f.case_id # req[r].id]_vars

(* A case was deleted while another case, with its comment, stays *)
C14_Witness ==
    \E r \in Reqs :
        /\ Done(r, "delete_case") /\ req[r].status = 200
        /\ \E c \in cases : \E m \in comments : m.case_id = c.id

(* The requests that write, and the id each is addressed to *)
Mutating ==
    {"update_case", "delete_case", "create_comment", "upload_file",
     "update_comment", "delete_comment", "delete_file"}

(* C15: a writing request addressed to an id that was never created answers
   404 with a detail field, and none of its steps changes a collection or the
   upload directory, under both backends *)
C15_MissingTargetIs404 ==
    [][\A r \in Reqs :
          /\ req[r].op \in Mutating /\ InFlight(r) /\ req'[r] # req[r]
          /\ NeverCreated(req[r].id)
          => /\ store' = store
             /\ Finishes(r)
             /\ req'[r].status = 404
             /\ "detail" \in DOMAIN req'[r].body]_vars

(* Each of the seven requests has been answered 404 on a missing id *)
Answered404(op) ==
    \E r \in Reqs :
        /\ Done(r, op) /\ req[r].status = 404 /\ req[r].id = NonExistentId
        /\ cases # {} /\ comments # {}
C15_Witness == Answered404("update_comment")

(* The fields an update_case body may change: the supplied ones, updated_at,
   and closed_at when the supplied status is closed; none for an empty body *)
MayChange(body) ==
    IF body = EmptyBody THEN {}
    ELSE DOMAIN body \cup {"updated_at"} \cup
         (IF "status" \in DOMAIN body /\ body["status"] = "closed"
          THEN {"closed_at"} ELSE {})

(* In this step the cases keep their ids, the case id changes in no field
   outside free, and every other case stays as it is *)
KeepsAllBut(id, free) ==
    /\ {c.id : c \in cases'} = {c.id : c \in cases}
    /\ \A c \in cases :
          IF c.id = id
          THEN \A f \in DOMAIN c \ free : Get(cases', id)[f] = c[f]
          ELSE c \in cases'

(* C16, as claimed: no step of an update_case changes a field of the case
   other than the supplied ones, updated_at, and closed_at when status closed
   is supplied; with an empty body no stored field changes *)
C16_UpdateChangesOnlySupplied ==
    [][\A r \in Reqs :
          req[r].op = "update_case" /\ InFlight(r) /\ req'[r] # req[r] =>
              KeepsAllBut(req[r].id, MayChange(req[r].in))]_vars

Counts == {"comments_count", "attachments_count"}

(* C16, amended: as claimed, except that an update_case that supplies a status
   also rewrites comments_count and attachments_count, through the counter
   refresh that follows its system comment *)
C16_UpdateChangesOnlySuppliedAndCounts ==
    [][\A r \in Reqs :
          req[r].op = "update_case" /\ InFlight(r) /\ req'[r] # req[r] =>
              KeepsAllBut(req[r].id,
                  MayChange(req[r].in) \cup
                  (IF "status" \in DOMAIN req[r].in THEN Counts ELSE {}))]_vars

(* A closed case was given a new title: the answer carries the new title and
   the status, closed_at and creator it had *)
C16_Witness ==
    \E r \in Reqs :
        /\ Done(r, "update_case") /\ req[r].status = 200
        /\ "title" \in DOMAIN req[r].in
        /\ req[r].body.title = req[r].in.title
        /\ req[r].body.title # <<"c">>
        /\ req[r].body.created_by = "bob"
        /\ req[r].body.status = "closed"
        /\ req[r].body.closed_at # None

Elems(list) == {list[i] : i \in 1..Len(list)}

(* Case c matches every term filter the query supplies *)
Satisfies(c, q) ==
    /\ q.status # None => c.status = q.status
    /\ q.priority # None => c.priority = q.priority
    /\ q.created_by # None => c.created_by = q.created_by

(* The page is not cut: it starts at the first hit and is not full *)
WholeResult(rq) == rq.in.offset = 0 /\ Len(rq.body) < rq.in.limit

(* C17: GET /cases without a search text returns only cases that match every
   supplied filter, and all of them when the page is not cut; the answer
   depends on the stored cases and the filters only, not on the backend *)
C17_FiltersAreConjoined ==
    \A r \in Reqs :
        Done(r, "get_cases") /\ req[r].in.search = NoSearch =>
            /\ req[r].status = 200
            /\ Elems(req[r].body) \subseteq
                   {c \in cases : Satisfies(c, req[r].in)}
            /\ WholeResult(req[r]) =>
                   Elems(req[r].body) = {c \in cases : Satisfies(c, req[r].in)}

(* Two filters were supplied, a stored case matches one of them only, and the
   answer is the one case that matches both *)
C17_Witness ==
    \E r \in Reqs :
        /\ Done(r, "get_cases") /\ req[r].in.search = NoSearch
        /\ req[r].in.status = "open" /\ req[r].in.created_by = "alice"
        /\ WholeResult(req[r])
        /\ Len(req[r].body) = 1
        /\ \E c \in cases : c.status = "open" /\ c.created_by = "bob"

(* The words of a text: its maximal runs without a space *)
IsWord(text, i, j) ==
    /\ i <= j
    /\ \A k \in i..j : text[k] # " "
    /\ i = 1 \/ text[i - 1] = " "
    /\ j = Len(text) \/ text[j + 1] = " "
Words(text) ==
    {SubSeq(text, i, j) : <<i, j>> \in
        {p \in (1..Len(text)) \X (1..Len(text)) : IsWord(text, p[1], p[2])}}
SharesWord(a, b) == Words(a) \cap Words(b) # {}

HasTermFilter(q) ==
    q.status # None \/ q.priority # None \/ q.created_by # None

(* C18, as claimed: under OpenSearch, a GET /cases with a search text and
   term filters returns every case that matches the text, whether or not it
   matches the term filters *)
C18_SearchOrFilters ==
    \A r \in Reqs :
        /\ USE_OPENSEARCH /\ Done(r, "get_cases")
        /\ req[r].in.search # NoSearch /\ HasTermFilter(req[r].in)
        /\ WholeResult(req[r])
        => \A c \in cases :
              SharesWord(req[r].in.search, c.title) => c \in Elems(req[r].body)

(* C18, amended: under OpenSearch, a GET /cases with a search text and term
   filters returns the cases that match the text and every term filter *)
C18_SearchAndFilters ==
    \A r \in Reqs :
        /\ USE_OPENSEARCH /\ Done(r, "get_cases")
        /\ req[r].in.search # NoSearch /\ HasTermFilter(req[r].in)
        /\ WholeResult(req[r])
        => /\ req[r].status = 200
           /\ Elems(req[r].body) =
                 {c \in cases : /\ SharesWord(req[r].in.search, c.title)
                                /\ Satisfies(c, req[r].in)}

(* Both stored cases match the text, one of them matches the filter, and the
   answer holds that one only *)
C18_Witness ==
    \E r \in Reqs :
        /\ USE_OPENSEARCH /\ Done(r, "get_cases")
        /\ req[r].in.search = <<"c">> /\ req[r].in.created_by = "alice"
        /\ WholeResult(req[r])
        /\ Len(req[r].body) = 1
        /\ Cardinality({c \in cases : SharesWord(<<"c">>, c.title)}) = 2

(* C19: a create-case request on a critical alert, with no priority in its
   body, answers with a case tagged alert and severity-critical whose
   alert_id is the alert's id; that case is stored, and the alert's record
   then carries the case's id as case_id *)
C19_PromotedCaseIsLinked ==
    \A r \in Reqs :
        /\ Done(r, "create_case_from_alert") /\ req[r].status = 200
        /\ "priority" \notin DOMAIN req[r].in
        /\ \E a \in alerts : a.id = req[r].id /\ a.severity = "critical"
        => /\ {"alert", "severity-critical"} \subseteq req[r].body.tags
           /\ req[r].body.alert_id = req[r].id
           /\ \E c \in cases :
                 /\ c.id = req[r].body.id
                 /\ c.alert_id = req[r].id
                 /\ {"alert", "severity-critical"} \subseteq c.tags
           /\ \A a \in alerts : a.id = req[r].id => a.case_id = req[r].body.id

(* A critical alert was promoted with no priority in the body *)
C19_Witness ==
    \E r \in Reqs :
        /\ Done(r, "create_case_from_alert") /\ req[r].status = 200
        /\ req[r].in = [created_by |-> "alice"]
        /\ \E a \in alerts :
              a.id = req[r].id /\ a.severity = "critical" /\ a.case_id # None

(* C20: every request answered with an error status carries a JSON body with
   a detail field; a handler whose storage call raises answers 500 with such
   a body, under both backends *)
C20_ErrorsCarryDetail ==
    \A r \in Reqs :
        req[r].pc = "done" /\ req[r].status >= 400 =>
            "detail" \in DOMAIN req[r].body

(* The children of a case that are stored now *)
LiveComments(case_id) == Cardinality({m \in comments : m.case_id = case_id})
LiveFiles(case_id) == Cardinality({f \in files : f.case_id = case_id})

(* C21: the counter refresh is a read, a read and a write: each count is the
   number of children stored when it is read, and the write stores the two
   counts read before, on that case only, whatever the children are by then.
   Two refreshes of one case can therefore both read before either writes *)
C21_RefreshReadsThenWrites ==
    [][\A r \in Reqs :
          req'[r] # req[r] /\ faults' = faults =>
              /\ At(r, "rc_comments") =>
                    req'[r].cc = LiveComments(req[r].case_id)
              /\ At(r, "rc_files") =>
                    req'[r].ac = LiveFiles(req[r].case_id)
              /\ At(r, "rc_update") =>
                    \A c \in cases :
                        IF c.id = req[r].case_id
                        THEN \E d \in cases' :
                                /\ d.id = c.id
                                /\ d.comments_count = req[r].cc
                                /\ d.attachments_count = req[r].ac
                        ELSE c \in cases']_vars

(* Two create_comment requests on one case have both answered 200, no
   storage call has raised, no request is in flight, and the case's
   comments_count is not the number of its comments *)
C21_Witness ==
    /\ Quiescent /\ faults = 0
    /\ \E r, q \in Reqs :
          /\ r # q
          /\ Done(r, "create_comment") /\ req[r].status = 200
          /\ Done(q, "create_comment") /\ req[q].status = 200
          /\ req[r].case_id = req[q].case_id
          /\ \E c \in cases :
                /\ c.id = req[r].case_id
                /\ c.comments_count # LiveComments(c.id)

SuppliesClosed(body) == "status" \in DOMAIN body /\ body["status"] = "closed"

(* C22: the write of an update_case that supplies status closed stamps
   closed_at, also on a case that is closed already; no step of any other
   update_case changes a closed_at; and no step of any request clears a
   closed_at that is set *)
C22_ClosedAtStampedNeverCleared ==
    [][/\ \A r \in Reqs :
             req[r].op = "update_case" /\ InFlight(r) /\ req'[r] # req[r] =>
                 /\ /\ At(r, "uc_update") /\ faults' = faults
                    /\ Has(cases, req[r].id) /\ SuppliesClosed(req[r].in)
                    => Get(cases', req[r].id).closed_at = UtcNow
                 /\ ~SuppliesClosed(req[r].in) =>
                       \A c \in cases : \A d \in cases' :
                           d.id = c.id => d.closed_at = c.closed_at
       /\ \A c \in cases : \A d \in cases' :
             d.id = c.id /\ c.closed_at # None => d.closed_at # None]_vars

(* A case that was closed and then set in progress keeps its closed_at *)
C22_Witness ==
    \E c \in cases : c.status = "in_progress" /\ c.closed_at # None

(* The body of update_case r leaves the status the handler fetched as it is *)
KeepsStatus(r) ==
    "status" \in DOMAIN req[r].in => req[r].in["status"] = req[r].obj.status

(* C23: no step of an update_case that omits status, or supplies the status
   the case has, adds a comment or starts the counter refresh, and none
   changes a case's comments_count or attachments_count *)
C23_UnchangedStatusNoCommentNoRefresh ==
    [][\A r \in Reqs :
          /\ req[r].op = "update_case" /\ InFlight(r) /\ req'[r] # req[r]
          /\ ~At(r, "uc_get") /\ KeepsStatus(r)
          => /\ comments' = comments
             /\ req'[r].pc \notin CountPcs
             /\ \A c \in cases : \A d \in cases' :
                   d.id = c.id => /\ d.comments_count = c.comments_count
                                  /\ d.attachments_count = c.attachments_count]_vars

(* C24: when the system-comment insert of create_case raises, the request
   ends with status 500 and the case it inserted stays stored with
   comments_count 0; when the system-comment insert of update_case raises,
   the request ends with status 500 and the status it wrote stays stored.
   The failing step changes no case and no comment *)
C24_NoRollback ==
    [][\A r \in Reqs :
          Raises(r) /\ (At(r, "cc_comment") \/ At(r, "uc_comment")) =>
              /\ req'[r].pc = "done" /\ req'[r].status = 500
              /\ cases' = cases /\ comments' = comments
              /\ At(r, "cc_comment") =>
                    /\ Has(cases', req[r].case_id)
                    /\ Get(cases', req[r].case_id).comments_count = 0
              /\ At(r, "uc_comment") =>
                    /\ Has(cases', req[r].id)
                    /\ Get(cases', req[r].id).status = req[r].in["status"]]_vars

(* A create_case has failed and its case is stored without a comment *)
C24_Witness ==
    \E r \in Reqs :
        /\ Done(r, "create_case") /\ req[r].status = 500
        /\ Has(cases, req[r].case_id)
        /\ Get(cases, req[r].case_id).comments_count = 0
        /\ LiveComments(req[r].case_id) = 0

(* C25: initialize_opensearch_indices never raises, whether an index is there
   before startup or another process creates it between the existence check
   and the create call; and a process that has started finds all five
   indices *)
C25_InitializationToleratesDuplicates ==
    \A p \in Procs :
        /\ startup[p].pc # "failed"
        /\ startup[p] = Started => indices = IndexNames

(* C26: when no request is in flight, every comment record and every file
   record belongs to a case that is stored *)
C26_NoOrphanChildren ==
    Quiescent =>
        /\ \A m \in comments : Has(cases, m.case_id)
        /\ \A f \in files : Has(cases, f.case_id)

(* C27: a case that a completed delete_case deleted is never stored again,
   whatever the requests that were in flight at the deletion write later *)
C27_DeletedStaysDeleted ==
    \A id \in hist.deleted : ~Has(cases, id)

(* A case has been deleted while a request was in flight on it, and that
   request's write to the case is the next thing it does: the write of the
   counter refresh, or update_case's own *)
C27_Witness ==
    \E r \in Reqs :
        /\ req[r].op = "update_case" /\ req[r].id \in hist.deleted
        /\ At(r, "uc_update") \/ At(r, "rc_update")

ChildOps == {"create_comment", "delete_comment", "upload_file", "delete_file"}

(* C28: a successful comment or file creation or deletion that ran with no
   other request in flight leaves its case with comments_count and
   attachments_count equal to the numbers of its stored comments and files,
   whatever interleaving came before *)
C28_RefreshAloneRestoresCounts ==
    \A r \in Reqs :
        /\ req[r].op \in ChildOps /\ req[r].pc = "done" /\ req[r].status = 200
        /\ r \notin hist.overlapped
        => \E c \in cases :
              /\ c.id = req[r].case_id
              /\ c.comments_count = LiveComments(c.id)
              /\ c.attachments_count = LiveFiles(c.id)

(* The counts of a case were off once the requests racing on it had finished,
   and a delete_comment run alone on that case has finished since *)
C28_Witness ==
    \E r \in Reqs :
        /\ Done(r, "delete_comment") /\ req[r].status = 200
        /\ r \notin hist.overlapped
        /\ req[r].case_id \in hist.skewed

InStatus(s) == Cardinality({c \in cases : c.status = s})

(* C29: with requests run one at a time, GET /stats reports for each status
   the number of stored cases in it, and a total_cases that is their sum and
   the number of stored cases, under both backends *)
C29_StatsCountCasesByStatus ==
    \A r \in Reqs :
        Done(r, "get_stats") /\ req[r].status = 200 =>
            LET stats == req[r].body IN
            /\ stats.open_cases = InStatus("open")
            /\ stats.in_progress_cases = InStatus("in_progress")
            /\ stats.closed_cases = InStatus("closed")
            /\ stats.total_cases = stats.open_cases + stats.in_progress_cases
                                       + stats.closed_cases
            /\ stats.total_cases = Cardinality(cases)

(* GET /stats has answered with one case stored, which is closed *)
C29_Witness ==
    \E r \in Reqs :
        /\ Done(r, "get_stats") /\ req[r].status = 200
        /\ req[r].body.total_cases = 1
        /\ req[r].body.closed_cases = 1
        /\ req[r].body.open_cases = 0

(* C30: no step of an update_comment changes a case, a file record or the
   number of comments, or starts the counter refresh; of the comments it
   changes only the one it names, and of that one only content and
   updated_at; and when the body has no content key the stored content stays
   as it was *)
C30_UpdateCommentChangesContentOnly ==
    [][\A r \in Reqs :
          req[r].op = "update_comment" /\ InFlight(r) /\ req'[r] # req[r] =>
              /\ cases' = cases /\ files' = files
              /\ req'[r].pc \notin CountPcs
              /\ Cardinality(comments') = Cardinality(comments)
              /\ \A m \in comments : \E n \in comments' :
                    /\ n.id = m.id
                    /\ m.id # req[r].id => n = m
                    /\ \A f \in DOMAIN m \ {"content", "updated_at"} :
                          n[f] = m[f]
                    /\ "content" \notin DOMAIN req[r].in =>
                          n.content = m.content]_vars

====
